---- MODULE Spec2Model ----
(***************************************************************************)
(* Three small HTTP services over a remote relational store:               *)
(*   - the visit counter        (app.js,  table visits, rpc increment_visits)*)
(*   - the single page counter  (app.cjs, table page_views,                *)
(*                               rpc increment_view_count)                 *)
(*   - the card click tracker   (table click_tracking, view                *)
(*                               click_leaderboard)                        *)
(* Every request is an async handler: it runs without interruption up to   *)
(* its next await, the awaited store call takes effect atomically at the   *)
(* store, and the handler resumes with the call's {data, error}.  One      *)
(* action of the model is one store call together with the handler code    *)
(* that runs on its result (up to the next store call or the response).    *)
(* A store call that returns an error has no effect on the store.          *)
(***************************************************************************)
EXTENDS Integers, Sequences, FiniteSets

VARIABLES
    visits,         \* table visits of app.js: a sequence of rows
    js,             \* the requests of app.js, one per request slot
    page_views,     \* table page_views of app.cjs: a sequence of rows
    cjs,            \* the requests of app.cjs
    click_tracking, \* table click_tracking of the click tracker
    clk             \* the requests of the click tracker

vars == <<visits, js, page_views, cjs, click_tracking, clk>>

(***************************************************************************)
(* Bounds of the model.                                                    *)
(***************************************************************************)
NumReq == 3        \* request slots of app.js, each serves one request
NumCjsReq == 3     \* request slots of app.cjs
NumClickReq == 2   \* request slots of the click tracker

Procs == 1..NumReq
CjsProcs == 1..NumCjsReq
ClickProcs == 1..NumClickReq

(***************************************************************************)
(* Values shared by the services.                                          *)
(***************************************************************************)
Undefined == "undefined"
NoData == 0 - 1                 \* data: null of a store reply that carries an error

\* error objects a store call can return besides "no single row"
StoreErrors ==
    { [code |-> "08006", message |-> "connection failure"],
      [code |-> "42501", message |-> "permission denied"] }

NoError == [code |-> "none", message |-> ""]
NotSingleRow == [code |-> "PGRST116", message |-> "JSON object requested, multiple (or no) rows returned"]
UniqueViolation == [code |-> "23505", message |-> "duplicate key value violates unique constraint"]

(***************************************************************************)
(* The store, table visits.                                                *)
(***************************************************************************)
Matching(rows, pageUrl) == { i \in DOMAIN rows : rows[i].page_url = pageUrl }

\* .select('visit_count').eq('page_url', pageUrl).single()
SelectSingle(rows, pageUrl) ==
    IF Cardinality(Matching(rows, pageUrl)) = 1
    THEN [error |-> NoError,
          data |-> rows[CHOOSE i \in Matching(rows, pageUrl) : TRUE].visit_count]
    ELSE [error |-> NotSingleRow, data |-> NoData]

\* the insert into a table whose key is not unique
StoreInsertNoUnique(rows, row) ==
    [error |-> NoError, data |-> row.visit_count, rows |-> Append(rows, row)]

\* .insert(row).select('visit_count').single() on a table whose key is unique
StoreInsert(rows, row) ==
    IF Matching(rows, row.page_url) # {}
    THEN [error |-> UniqueViolation, data |-> NoData, rows |-> rows]
    ELSE [error |-> NoError, data |-> row.visit_count, rows |-> Append(rows, row)]

\* the update done as an increment of the stored value, the patch's count ignored
StoreUpdateIncrement(rows, pageUrl, patch) ==
    LET rows2 == [i \in DOMAIN rows |->
                    IF rows[i].page_url = pageUrl
                    THEN [rows[i] EXCEPT !.visit_count = @ + 1,
                                         !.last_visit = patch.last_visit]
                    ELSE rows[i]]
        reply == SelectSingle(rows2, pageUrl)
    IN  [error |-> reply.error, data |-> reply.data, rows |-> rows2]

\* .update(patch).eq('page_url', pageUrl).select('visit_count').single()
StoreUpdate(rows, pageUrl, patch) ==
    LET rows2 == [i \in DOMAIN rows |->
                    IF rows[i].page_url = pageUrl
                    THEN [rows[i] EXCEPT !.visit_count = patch.visit_count,
                                         !.last_visit = patch.last_visit]
                    ELSE rows[i]]
        reply == SelectSingle(rows2, pageUrl)
    IN  [error |-> reply.error, data |-> reply.data, rows |-> rows2]

\* rpc('increment_visits', {page_path}): one indivisible store-side increment
\* that creates the row with value 1 when it is absent and returns the new value
RpcIncrementVisits(rows, pageUrl) ==
    IF Matching(rows, pageUrl) = {}
    THEN [error |-> NoError, data |-> 1,
          rows |-> Append(rows, [page_url |-> pageUrl, visit_count |-> 1,
                                 last_visit |-> "default"])]
    ELSE LET rows2 == [i \in DOMAIN rows |->
                         IF rows[i].page_url = pageUrl
                         THEN [rows[i] EXCEPT !.visit_count = @ + 1]
                         ELSE rows[i]]
         IN  [error |-> NoError, data |-> SelectSingle(rows2, pageUrl).data,
              rows |-> rows2]

\* the value of a counter, an absent key counting as 0
Val(rows, pageUrl) ==
    IF Matching(rows, pageUrl) = {} THEN 0
    ELSE rows[CHOOSE i \in Matching(rows, pageUrl) : TRUE].visit_count

(***************************************************************************)
(* app.js: the handlers' own code.                                         *)
(***************************************************************************)
PageParams == {Undefined, "about"}

\* req.params.page || '/'
PageUrl(param) == IF param = Undefined THEN "/" ELSE param

Pages == { PageUrl(q) : q \in PageParams }

\* error && error.code === 'PGRST116' with every error taken for "not found"
IsNotFoundAnyError(error) == error.code # "none"

\* error && error.code === 'PGRST116'
IsNotFound(error) == error.code # "none" /\ error.code = "PGRST116"

\* the row of the GET handler's insert, with a count of 1
GetInsertRowOne(pageUrl) ==
    [page_url |-> pageUrl, visit_count |-> 1, last_visit |-> "default"]

\* { page_url: pageUrl, visit_count: 0 }
GetInsertRow(pageUrl) ==
    [page_url |-> pageUrl, visit_count |-> 0, last_visit |-> "default"]

\* the row of the POST handler's insert, with a count of 0
PostInsertRowZero(pageUrl) ==
    [page_url |-> pageUrl, visit_count |-> 0, last_visit |-> "default"]

\* { page_url: pageUrl, visit_count: 1 }
PostInsertRow(pageUrl) ==
    [page_url |-> pageUrl, visit_count |-> 1, last_visit |-> "default"]

\* the patch of the POST handler's update with the increment left out
UpdatePatchNoIncrement(existing) ==
    [visit_count |-> existing, last_visit |-> "now"]

\* { visit_count: existingData.visit_count + 1, last_visit: new Date().toISOString() }
UpdatePatch(existing) ==
    [visit_count |-> existing + 1, last_visit |-> "now"]

GetFailBody == [visits |-> NoData, error |-> "Failed to fetch visit count"]
PostFailBody == [visits |-> NoData, error |-> "Failed to increment visit count"]
OkBody(n) == [visits |-> n, error |-> ""]

InFlight(r) == r.pc \notin {"idle", "done"}

IdleReq ==
    [kind |-> "none", pc |-> "idle", page |-> "", existing |-> NoData,
     status |-> 0, body |-> OkBody(NoData),
     \* history of the request, read by the properties only
     path |-> "none",      \* "rpc" or "fallback" for an increment
     pre |-> 0,            \* value of the key when the request started
     post |-> 0,           \* value of the key when the request responded
     seen |-> 0,           \* successful increments of the key so far, at the response
     overlap |-> FALSE,    \* another request for the key was in flight meanwhile
     clean |-> FALSE,      \* no two requests for the key had overlapped, at the response
     failed |-> "none",    \* the store call that returned a failure to the fallback path
     writes |-> 0,         \* store writes the request has made
     readAt |-> 0]         \* writes other requests had made to the key at the fallback read

\* successful increments of a key that have responded
OkIncs(reqs, pageUrl) ==
    Cardinality({ q \in Procs : reqs[q].kind = "post" /\ reqs[q].page = pageUrl
                                /\ reqs[q].pc = "done" /\ reqs[q].status = 200 })

\* store writes made to a key by all requests
KeyWrites(reqs, pageUrl) ==
    LET RECURSIVE Sum(_)
        Sum(S) == IF S = {} THEN 0
                  ELSE LET q == CHOOSE x \in S : TRUE
                       IN  (IF reqs[q].page = pageUrl THEN reqs[q].writes ELSE 0)
                           + Sum(S \ {q})
    IN  Sum(Procs)

\* the response: res.json(...) or res.status(500).json(...)
Respond(r, status, body, rows) ==
    [r EXCEPT !.pc = "done", !.status = status, !.body = body,
              !.post = Val(rows, r.page),
              !.seen = OkIncs(js, r.page)
                       + (IF r.kind = "post" /\ status = 200 THEN 1 ELSE 0),
              !.clean = \A q \in Procs : js[q].page = r.page => ~js[q].overlap]

\* a request arrives: the handler runs up to its first await
\* (the request slots are taken in the order of arrival)
Start(p, kind, param) ==
    /\ js[p].pc = "idle"
    /\ \A q \in Procs : q < p => js[q].pc # "idle"
    /\ LET pageUrl == PageUrl(param)
           others == { q \in Procs : q # p /\ InFlight(js[q]) /\ js[q].page = pageUrl }
       IN  js' = [q \in Procs |->
                    IF q = p
                    THEN [IdleReq EXCEPT !.kind = kind, !.page = pageUrl,
                                         !.pc = IF kind = "get" THEN "get_select" ELSE "post_rpc",
                                         !.pre = Val(visits, pageUrl),
                                         !.overlap = (others # {})]
                    ELSE IF q \in others THEN [js[q] EXCEPT !.overlap = TRUE]
                    ELSE js[q]]
    /\ UNCHANGED <<visits, page_views, cjs, click_tracking, clk>>

\* GET /api/visits/:page?  -- the select and the code after it
GetSelect(p) ==
    /\ js[p].pc = "get_select"
    /\ \E reply \in {SelectSingle(visits, js[p].page)}
                    \cup { [error |-> e, data |-> NoData] : e \in StoreErrors } :
         js' = [js EXCEPT ![p] =
                  IF IsNotFound(reply.error) THEN [@ EXCEPT !.pc = "get_insert"]
                  ELSE IF reply.error.code # "none" THEN Respond(@, 500, GetFailBody, visits)
                  ELSE Respond(@, 200, OkBody(reply.data), visits)]
    /\ UNCHANGED <<visits, page_views, cjs, click_tracking, clk>>

\* GET /api/visits/:page?  -- the insert of the missing page and the code after it
GetInsert(p) ==
    /\ js[p].pc = "get_insert"
    /\ \E reply \in {StoreInsert(visits, GetInsertRow(js[p].page))}
                    \cup { [error |-> e, data |-> NoData, rows |-> visits] : e \in StoreErrors } :
         /\ visits' = reply.rows
         /\ js' = [js EXCEPT ![p] =
                     IF reply.error.code # "none"
                     THEN Respond(@, 500, GetFailBody, reply.rows)
                     ELSE Respond([@ EXCEPT !.writes = @ + 1], 200,
                                  OkBody(reply.data), reply.rows)]
    /\ UNCHANGED <<page_views, cjs, click_tracking, clk>>

\* POST /api/visits/:page?  -- the rpc and the code after it
PostRpc(p) ==
    /\ js[p].pc = "post_rpc"
    /\ \E reply \in {RpcIncrementVisits(visits, js[p].page)}
                    \cup { [error |-> e, data |-> NoData, rows |-> visits] : e \in StoreErrors } :
         /\ visits' = reply.rows
         /\ js' = [js EXCEPT ![p] =
                     IF reply.error.code # "none"
                     THEN [@ EXCEPT !.pc = "post_select", !.path = "fallback"]
                     ELSE Respond([@ EXCEPT !.path = "rpc", !.writes = @ + 1], 200,
                                  OkBody(reply.data), reply.rows)]
    /\ UNCHANGED <<page_views, cjs, click_tracking, clk>>

\* POST /api/visits/:page?  -- the fallback's select and the code after it
PostSelect(p) ==
    /\ js[p].pc = "post_select"
    /\ \E reply \in {SelectSingle(visits, js[p].page)}
                    \cup { [error |-> e, data |-> NoData] : e \in StoreErrors } :
         js' = [js EXCEPT ![p] =
                  LET r == [@ EXCEPT !.failed = IF reply.error \in StoreErrors
                                                THEN "select" ELSE @,
                                     !.readAt = KeyWrites(js, js[p].page)]
                  IN  IF IsNotFound(reply.error) THEN [r EXCEPT !.pc = "post_insert"]
                      ELSE IF reply.error.code # "none"
                      THEN Respond(r, 500, PostFailBody, visits)
                      ELSE [r EXCEPT !.pc = "post_update", !.existing = reply.data]]
    /\ UNCHANGED <<visits, page_views, cjs, click_tracking, clk>>

\* POST /api/visits/:page?  -- the fallback's insert and the code after it
PostInsert(p) ==
    /\ js[p].pc = "post_insert"
    /\ \E reply \in {StoreInsert(visits, PostInsertRow(js[p].page))}
                    \cup { [error |-> e, data |-> NoData, rows |-> visits] : e \in StoreErrors } :
         /\ visits' = reply.rows
         /\ js' = [js EXCEPT ![p] =
                     IF reply.error.code # "none"
                     THEN Respond([@ EXCEPT !.failed = IF @ = "none" THEN "insert" ELSE @],
                                  500, PostFailBody, reply.rows)
                     ELSE Respond([@ EXCEPT !.writes = @ + 1], 200,
                                  OkBody(reply.data), reply.rows)]
    /\ UNCHANGED <<page_views, cjs, click_tracking, clk>>

\* POST /api/visits/:page?  -- the fallback's update and the code after it
PostUpdate(p) ==
    /\ js[p].pc = "post_update"
    /\ \E reply \in {StoreUpdate(visits, js[p].page, UpdatePatch(js[p].existing))}
                    \cup { [error |-> e, data |-> NoData, rows |-> visits] : e \in StoreErrors } :
         /\ visits' = reply.rows
         /\ js' = [js EXCEPT ![p] =
                     IF reply.error.code # "none"
                     THEN Respond([@ EXCEPT !.failed = IF @ = "none" THEN "update" ELSE @,
                                            !.writes = IF reply.rows # visits THEN @ + 1 ELSE @],
                                  500, PostFailBody, reply.rows)
                     ELSE Respond([@ EXCEPT !.writes = @ + 1], 200,
                                  OkBody(reply.data), reply.rows)]
    /\ UNCHANGED <<page_views, cjs, click_tracking, clk>>

VisitsNext ==
    \/ \E p \in Procs, kind \in {"get", "post"}, param \in PageParams : Start(p, kind, param)
    \/ \E p \in Procs : GetSelect(p)
    \/ \E p \in Procs : GetInsert(p)
    \/ \E p \in Procs : PostRpc(p)
    \/ \E p \in Procs : PostSelect(p)
    \/ \E p \in Procs : PostInsert(p)
    \/ \E p \in Procs : PostUpdate(p)

(***************************************************************************)
(* app.cjs: the single page counter.                                       *)
(***************************************************************************)
PageSlug == "/"      \* const pageSlug = '/'

MatchingSlug(rows, slug) == { i \in DOMAIN rows : rows[i].slug = slug }

\* .from('page_views').select('views').eq('slug', pageSlug).single()
SelectViews(rows, slug) ==
    IF Cardinality(MatchingSlug(rows, slug)) = 1
    THEN [error |-> NoError,
          data |-> rows[CHOOSE i \in MatchingSlug(rows, slug) : TRUE].views]
    ELSE [error |-> NotSingleRow, data |-> NoData]

\* rpc('increment_view_count', {page_slug}): one indivisible store-side
\* increment that creates the row with value 1 when it is absent
RpcIncrementViewCount(rows, slug) ==
    IF MatchingSlug(rows, slug) = {}
    THEN [error |-> NoError, data |-> 1,
          rows |-> Append(rows, [slug |-> slug, views |-> 1])]
    ELSE LET rows2 == [i \in DOMAIN rows |->
                         IF rows[i].slug = slug
                         THEN [rows[i] EXCEPT !.views = @ + 1]
                         ELSE rows[i]]
         IN  [error |-> NoError, data |-> SelectViews(rows2, slug).data,
              rows |-> rows2]

Views(rows, slug) ==
    IF MatchingSlug(rows, slug) = {} THEN 0
    ELSE rows[CHOOSE i \in MatchingSlug(rows, slug) : TRUE].views

\* res.status(500).json({ error: error.message })
CjsErrorBody(error) == [value |-> NoData, error |-> error.message]

\* res.json({ value: data.views })
CjsOkBody(views) == [value |-> views, error |-> ""]

CjsIdleReq ==
    [pc |-> "idle", status |-> 0, body |-> CjsOkBody(NoData),
     \* history of the request, read by the properties only
     pre |-> 0,            \* stored value when the request started
     own |-> NoData,       \* the value the request's own increment produced
     storeError |-> NoError] \* the error of the store call that ended the request

\* a request arrives: the handler runs up to its first await
CjsStart(p) ==
    /\ cjs[p].pc = "idle"
    /\ \A q \in CjsProcs : q < p => cjs[q].pc # "idle"
    /\ cjs' = [cjs EXCEPT ![p] = [@ EXCEPT !.pc = "rpc",
                                           !.pre = Views(page_views, PageSlug)]]
    /\ UNCHANGED <<visits, js, page_views, click_tracking, clk>>

\* POST /api/count/visitors/increment -- the rpc and the code after it
CjsRpc(p) ==
    /\ cjs[p].pc = "rpc"
    /\ \E reply \in {RpcIncrementViewCount(page_views, PageSlug)}
                    \cup { [error |-> e, data |-> NoData, rows |-> page_views] : e \in StoreErrors } :
         /\ page_views' = reply.rows
         /\ cjs' = [cjs EXCEPT ![p] =
                      IF reply.error.code # "none"
                      THEN [@ EXCEPT !.pc = "done", !.status = 500,
                                     !.body = CjsErrorBody(reply.error),
                                     !.storeError = reply.error]
                      ELSE [@ EXCEPT !.pc = "fetch", !.own = reply.data]]
    /\ UNCHANGED <<visits, js, click_tracking, clk>>

\* POST /api/count/visitors/increment -- the fetch of the row and the code after it
CjsFetch(p) ==
    /\ cjs[p].pc = "fetch"
    /\ \E reply \in {SelectViews(page_views, PageSlug)}
                    \cup { [error |-> e, data |-> NoData] : e \in StoreErrors } :
         cjs' = [cjs EXCEPT ![p] =
                   IF reply.error.code # "none"
                   THEN [@ EXCEPT !.pc = "done", !.status = 500,
                                  !.body = CjsErrorBody(reply.error),
                                  !.storeError = reply.error]
                   ELSE [@ EXCEPT !.pc = "done", !.status = 200,
                                  !.body = CjsOkBody(reply.data)]]
    /\ UNCHANGED <<visits, js, page_views, click_tracking, clk>>

CjsNext ==
    \/ \E p \in CjsProcs : CjsStart(p)
    \/ \E p \in CjsProcs : CjsRpc(p)
    \/ \E p \in CjsProcs : CjsFetch(p)

(***************************************************************************)
(* The card click tracker.  Strings are sequences of characters; a value   *)
(* of the request (a body field, a query parameter, a header) is a record  *)
(* that carries its JavaScript type.  The handlers run behind the rate     *)
(* limiters: the requests of the model are the ones the limiters admit.    *)
(***************************************************************************)
MaxTitleLen == 255      \* substring(0, 255)
DefaultLimit == 10      \* parseInt(req.query.limit) || 10
MaxLimit == 100         \* Math.min(..., 100)
DefaultMinClicks == 1   \* parseInt(req.query.minClicks) || 1

Str(s) == [type |-> "string", str |-> s, num |-> 0]
Num(n) == [type |-> "number", str |-> <<>>, num |-> n]
Undef == [type |-> "undefined", str |-> <<>>, num |-> 0]

Rep(c, n) == [i \in 1..n |-> c]

Whitespace == {" ", "\t"}

\* !v
Falsy(v) ==
    \/ v.type = "undefined"
    \/ v.type = "string" /\ v.str = <<>>
    \/ v.type = "number" /\ v.num = 0

\* a || b
OrElse(a, b) == IF Falsy(a) THEN b ELSE a

\* String.prototype.trim
RECURSIVE TrimLeft(_)
TrimLeft(s) ==
    IF s # <<>> /\ Head(s) \in Whitespace THEN TrimLeft(Tail(s)) ELSE s

RECURSIVE TrimRight(_)
TrimRight(s) ==
    IF s # <<>> /\ s[Len(s)] \in Whitespace
    THEN TrimRight(SubSeq(s, 1, Len(s) - 1)) ELSE s

Trim(s) == TrimRight(TrimLeft(s))

\* String.prototype.substring(0, n)
Prefix(s, n) == SubSeq(s, 1, IF Len(s) < n THEN Len(s) ELSE n)

\* the validation with a bound on the trimmed length added
InvalidTitleOrTooLong(cardTitle) ==
    \/ Falsy(cardTitle)
    \/ cardTitle.type # "string"
    \/ Len(Trim(cardTitle.str)) = 0
    \/ Len(Trim(cardTitle.str)) > MaxTitleLen

\* !cardTitle || typeof cardTitle !== 'string' || cardTitle.trim().length === 0
InvalidTitle(cardTitle) ==
    \/ Falsy(cardTitle)
    \/ cardTitle.type # "string"
    \/ Len(Trim(cardTitle.str)) = 0

\* cardTitle.trim().substring(0, 255)
Sanitize(s) == Prefix(Trim(s), MaxTitleLen)

\* parseInt(v): NaN, or the integer the longest decimal prefix denotes
\* (the inputs of the model hold no 0x prefix)
Digits == <<"0", "1", "2", "3", "4", "5", "6", "7", "8", "9">>
IsDigit(c) == \E d \in DOMAIN Digits : Digits[d] = c
DigitVal(c) == (CHOOSE d \in DOMAIN Digits : Digits[d] = c) - 1

NaN == [nan |-> TRUE, val |-> 0]
Int32(n) == [nan |-> FALSE, val |-> n]

RECURSIVE ParseDigits(_, _)
ParseDigits(s, acc) ==
    IF s # <<>> /\ IsDigit(Head(s))
    THEN ParseDigits(Tail(s), 10 * acc + DigitVal(Head(s)))
    ELSE acc

ParseInt(v) ==
    IF v.type = "number" THEN Int32(v.num)
    ELSE IF v.type # "string" THEN NaN
    ELSE LET t == TrimLeft(v.str)
             neg == t # <<>> /\ Head(t) = "-"
             u == IF t # <<>> /\ Head(t) \in {"-", "+"} THEN Tail(t) ELSE t
         IN  IF u = <<>> \/ ~IsDigit(Head(u)) THEN NaN
             ELSE Int32(IF neg THEN 0 - ParseDigits(u, 0) ELSE ParseDigits(u, 0))

\* n || d   for a number n: NaN and 0 are falsy
NumOrElse(n, d) == IF n.nan \/ n.val = 0 THEN d ELSE n.val

Min(a, b) == IF a < b THEN a ELSE b

\* Math.min(parseInt(req.query.limit) || 10, 100)
LimitOf(q) == Min(NumOrElse(ParseInt(q), DefaultLimit), MaxLimit)

\* parseInt(req.query.minClicks) || 1
MinClicksOf(q) == NumOrElse(ParseInt(q), DefaultMinClicks)

\* the view click_leaderboard: one entry per subject with its number of
\* click events, the entries in descending order of count
ClickCount(clicks, title) ==
    Cardinality({ i \in DOMAIN clicks : clicks[i].card_title = title })

RECURSIVE ByCountDesc(_, _)
ByCountDesc(clicks, titles) ==
    IF titles = {} THEN <<>>
    ELSE LET t == CHOOSE x \in titles :
                    \A y \in titles : ClickCount(clicks, y) <= ClickCount(clicks, x)
         IN  <<[card_title |-> t, click_count |-> ClickCount(clicks, t)]>>
             \o ByCountDesc(clicks, titles \ {t})

ClickLeaderboard(clicks) ==
    ByCountDesc(clicks, { clicks[i].card_title : i \in DOMAIN clicks })

\* .from('click_leaderboard').select('*').gte('click_count', minClicks).limit(limit)
RangeError == [code |-> "PGRST103", message |-> "Requested range not satisfiable"]

LeaderboardQuery(clicks, minClicks, limit) ==
    IF limit < 0 THEN [error |-> RangeError, data |-> <<>>]
    ELSE LET kept == SelectSeq(ClickLeaderboard(clicks),
                               LAMBDA e : e.click_count >= minClicks)
         IN  [error |-> NoError, data |-> Prefix(kept, limit)]

\* the bodies the requests of the model submit
TitleInputs ==
    { Undef, Num(7), Str(<<>>), Str(<<" ", "\t">>),
      Str(<<"A", "c", "e">>), Str(<<" ", "A", "c", "e", "\t">>),
      Str(<<" ">> \o Rep("a", MaxTitleLen) \o <<" ">>),
      Str(<<" ">> \o Rep("a", MaxTitleLen + 1)) }

\* req.ip, req.connection.remoteAddress and the User-Agent header
ClientInputs ==
    { [ip |-> Undef, remote |-> Undef, agent |-> Undef],
      [ip |-> Str(<<"i", "p">>), remote |-> Str(<<"i", "p">>), agent |-> Str(<<"u", "a">>)] }

Unknown == Str(<<"u", "n", "k", "n", "o", "w", "n">>)

\* req.ip || req.connection.remoteAddress || 'unknown'
UserIP(client) == OrElse(OrElse(client.ip, client.remote), Unknown)

\* req.get('User-Agent') || 'unknown'
UserAgent(client) == OrElse(client.agent, Unknown)

\* the query strings the requests of the model submit: limit, minClicks
QueryInputs ==
    { <<Undef, Undef>>,
      <<Str(<<"0">>), Str(<<"0">>)>>,
      <<Str(<<"1">>), Str(<<"2">>)>>,
      <<Str(<<"-", "5">>), Undef>>,
      <<Str(<<"2", "5", "0">>), Str(<<"-", "1">>)>>,
      <<Str(<<"a", "b", "c">>), Str(<<"2", "x">>)>> }

NoRecord == [card_title |-> <<>>, user_ip |-> Undef, user_agent |-> Undef]

ClkIdleReq ==
    [kind |-> "none", pc |-> "idle", status |-> 0, error |-> "",
     cardTitle |-> Undef,       \* req.body.cardTitle
     sanitizedTitle |-> <<>>, userIP |-> Undef, userAgent |-> Undef,
     data |-> NoRecord,         \* data[0] of the response
     qLimit |-> Undef, qMinClicks |-> Undef,   \* req.query
     limit |-> 0, minClicks |-> 0,
     leaderboard |-> <<>>,
     \* history of the request, read by the properties only
     asked |-> FALSE,           \* the request has called the store
     before |-> 0, after |-> 0] \* click events recorded at arrival and at the response

\* POST /log-click arrives: the handler runs up to its await
LogClickStart(p, cardTitle, client) ==
    /\ clk[p].pc = "idle"
    /\ \A q \in ClickProcs : q < p => clk[q].pc # "idle"
    /\ clk' = [clk EXCEPT ![p] =
                 LET r == [@ EXCEPT !.kind = "click", !.cardTitle = cardTitle,
                                    !.before = Len(click_tracking),
                                    !.after = Len(click_tracking)]
                 IN  IF InvalidTitle(cardTitle)
                     THEN [r EXCEPT !.pc = "done", !.status = 400,
                                    !.error = "Missing or invalid cardTitle. Must be a non-empty string."]
                     ELSE [r EXCEPT !.pc = "insert",
                                    !.sanitizedTitle = Sanitize(cardTitle.str),
                                    !.userIP = UserIP(client),
                                    !.userAgent = UserAgent(client)]]
    /\ UNCHANGED <<visits, js, page_views, cjs, click_tracking>>

\* POST /log-click -- the insert and the code after it
LogClickInsert(p) ==
    /\ clk[p].pc = "insert"
    /\ LET row == [card_title |-> clk[p].sanitizedTitle, user_ip |-> clk[p].userIP,
                   user_agent |-> clk[p].userAgent]
       IN  \E reply \in {[error |-> NoError, rows |-> Append(click_tracking, row)]}
                        \cup { [error |-> e, rows |-> click_tracking] : e \in StoreErrors } :
             /\ click_tracking' = reply.rows
             /\ clk' = [clk EXCEPT ![p] =
                          IF reply.error.code # "none"
                          THEN [@ EXCEPT !.pc = "done", !.status = 500, !.asked = TRUE,
                                         !.error = "Failed to log click",
                                         !.after = Len(reply.rows)]
                          ELSE [@ EXCEPT !.pc = "done", !.status = 200, !.asked = TRUE,
                                         !.data = row, !.after = Len(reply.rows)]]
    /\ UNCHANGED <<visits, js, page_views, cjs>>

\* GET /leaderboard arrives: the handler runs up to its await
LeaderboardStart(p, query) ==
    /\ clk[p].pc = "idle"
    /\ \A q \in ClickProcs : q < p => clk[q].pc # "idle"
    /\ clk' = [clk EXCEPT ![p] =
                 [@ EXCEPT !.kind = "leaderboard", !.pc = "query",
                           !.qLimit = query[1], !.qMinClicks = query[2],
                           !.limit = LimitOf(query[1]),
                           !.minClicks = MinClicksOf(query[2]),
                           !.before = Len(click_tracking),
                           !.after = Len(click_tracking)]]
    /\ UNCHANGED <<visits, js, page_views, cjs, click_tracking>>

\* GET /leaderboard -- the query of the view and the code after it
LeaderboardQueryStep(p) ==
    /\ clk[p].pc = "query"
    /\ \E reply \in {LeaderboardQuery(click_tracking, clk[p].minClicks, clk[p].limit)}
                    \cup { [error |-> e, data |-> <<>>] : e \in StoreErrors } :
         clk' = [clk EXCEPT ![p] =
                   IF reply.error.code # "none"
                   THEN [@ EXCEPT !.pc = "done", !.status = 500, !.asked = TRUE,
                                  !.error = "Failed to fetch leaderboard",
                                  !.after = Len(click_tracking)]
                   ELSE [@ EXCEPT !.pc = "done", !.status = 200, !.asked = TRUE,
                                  !.leaderboard = reply.data,
                                  !.after = Len(click_tracking)]]
    /\ UNCHANGED <<visits, js, page_views, cjs, click_tracking>>

ClickNext ==
    \/ \E p \in ClickProcs, t \in TitleInputs, c \in ClientInputs : LogClickStart(p, t, c)
    \/ \E p \in ClickProcs : LogClickInsert(p)
    \/ \E p \in ClickProcs, q \in QueryInputs : LeaderboardStart(p, q)
    \/ \E p \in ClickProcs : LeaderboardQueryStep(p)

Init ==
    /\ visits = <<>>
    /\ js = [p \in Procs |-> IdleReq]
    /\ page_views = <<>>
    /\ cjs = [p \in CjsProcs |-> CjsIdleReq]
    /\ click_tracking = <<>>
    /\ clk = [p \in ClickProcs |-> ClkIdleReq]

\* the visit counter, app.js
Spec == Init /\ [][VisitsNext]_vars

\* the single page counter, app.cjs
CjsSpec == Init /\ [][CjsNext]_vars

\* the card click tracker
ClickSpec == Init /\ [][ClickNext]_vars

(***************************************************************************)
(* Properties of the visit counter (Spec).                                 *)
(***************************************************************************)
Gets == { p \in Procs : js[p].kind = "get" }
Posts == { p \in Procs : js[p].kind = "post" }
Done(p) == js[p].pc = "done"
FallbackOk(p) ==
    p \in Posts /\ Done(p) /\ js[p].path = "fallback" /\ js[p].status = 200

\* C1: when the requests for a key have run one after another, a successful
\* get of the key returns the number of increments of the key that completed
\* successfully before it (0 for a key no increment has touched), whichever
\* path each increment took.
C1_SequentialIncrementsThenGet ==
    \A p \in Gets :
        (Done(p) /\ js[p].status = 200 /\ js[p].clean)
            => js[p].body.visits = js[p].seen

C1_Witness ==
    \E p \in Gets, q, r \in Posts :
        /\ Done(p) /\ js[p].status = 200 /\ js[p].clean
        /\ js[p].seen = 2 /\ js[p].body.visits = 2
        /\ js[q].page = js[p].page /\ js[r].page = js[p].page
        /\ js[q].path = "rpc" /\ FallbackOk(r)

\* C2, the visit counter: when every increment of a key took the atomic
\* path, the responses of the increments of the key are pairwise distinct
\* and, once all have responded, the stored value is their number.
C2_Js ==
    \A k \in Pages :
        LET incs == { p \in Posts : js[p].page = k }
        IN  (\A p \in incs : js[p].path = "rpc" /\ js[p].status = 200)
            => /\ \A p, q \in incs : p # q => js[p].body.visits # js[q].body.visits
               /\ \A p \in incs : js[p].body.visits \in 1..Cardinality(incs)
               /\ Val(visits, k) = Cardinality(incs)

\* C2, the page counter: each successful response is the value the request's
\* own increment produced, so the responses are pairwise distinct.
C2_Cjs ==
    /\ \A p \in CjsProcs :
          (cjs[p].pc = "done" /\ cjs[p].status = 200)
              => cjs[p].body.value = cjs[p].own
    /\ \A p, q \in CjsProcs :
          (p # q /\ cjs[p].pc = "done" /\ cjs[p].status = 200
                 /\ cjs[q].pc = "done" /\ cjs[q].status = 200)
              => cjs[p].body.value # cjs[q].body.value

\* C2: increment is atomic and returns the new value, in both increment
\* handlers: k increments whose atomic remote increment succeeds leave v + k
\* stored and respond with the k distinct values v+1 .. v+k, each the value
\* of the request's own increment.
C2_AtomicIncrementReturnsOwnValue == C2_Js /\ C2_Cjs

\* C3: an increment that took the fallback path, whose fallback store calls
\* all succeeded and during which no other request for its key was in flight,
\* responds with old + 1 and leaves old + 1 stored (old = 0 for an absent key).
C3_FallbackAloneAddsOne ==
    \A p \in Posts :
        (FallbackOk(p) /\ ~js[p].overlap)
            => /\ js[p].body.visits = js[p].pre + 1
               /\ js[p].post = js[p].pre + 1

C3_Witness ==
    \E p, q \in Posts :
        /\ FallbackOk(p) /\ ~js[p].overlap /\ js[p].pre = 0
        /\ js[p].existing = NoData /\ js[p].body.visits = 1
        /\ FallbackOk(q) /\ ~js[q].overlap /\ js[q].pre = 1
        /\ js[q].existing = 1 /\ js[q].body.visits = 2 /\ js[q].post = 2

\* C4: two increments of one key that both took the fallback path and both
\* read the row before either wrote respond with the same value, and when
\* theirs are the only two writes since the reads the stored value has grown
\* by 1 only.
BothReadBeforeEitherWrote(p, q) ==
    /\ p # q /\ FallbackOk(p) /\ FallbackOk(q)
    /\ js[p].page = js[q].page
    /\ js[p].existing # NoData /\ js[q].existing # NoData
    /\ js[p].readAt = js[q].readAt

C4_ConcurrentFallbacksLoseAnIncrement ==
    \A p, q \in Posts :
        BothReadBeforeEitherWrote(p, q)
            => /\ js[p].body.visits = js[q].body.visits
               /\ js[p].body.visits = js[p].existing + 1
               /\ (KeyWrites(js, js[p].page) = js[p].readAt + 2
                      => Val(visits, js[p].page) = js[p].existing + 1)

C4_Witness ==
    \E p, q \in Posts :
        /\ BothReadBeforeEitherWrote(p, q)
        /\ KeyWrites(js, js[p].page) = js[p].readAt + 2
        /\ Val(visits, js[p].page) = js[p].existing + 1
        /\ js[p].body.visits = js[q].body.visits

\* C5: once a store call of the fallback path has failed (the read for a
\* reason other than "not found", the insert or the update), the request has
\* responded 500 without a success value and makes no further store call; a
\* request whose read failed has written nothing.
C5_FallbackFailureEndsRequest ==
    \A p \in Posts :
        js[p].failed # "none"
            => /\ Done(p) /\ js[p].status = 500
               /\ js[p].body = PostFailBody
               /\ (js[p].failed \in {"select", "insert"} => js[p].writes = 0)
               /\ (js[p].failed = "select" /\ ~js[p].overlap => js[p].post = js[p].pre)

C5_Witness ==
    \E p, q \in Posts :
        /\ js[p].failed = "select" /\ js[p].pre >= 1 /\ js[p].status = 500
        /\ js[q].failed \in {"insert", "update"} /\ js[q].status = 500

\* C6 as stated: a get never changes the store, an absent key is answered
\* without being created.
C6_GetNeverWrites ==
    \A p \in Gets : js[p].writes = 0

\* C6 as amended: a get never changes the value of any counter, an absent
\* key counting as 0: it leaves the rows as they are, or, for an absent key,
\* adds the one row (key, 0) and answers 0.
C6_GetKeepsEveryValue ==
    [][\A p \in Procs :
          (js[p].kind = "get" /\ js'[p] # js[p])
              => /\ \A k \in Pages : Val(visits', k) = Val(visits, k)
                 /\ \/ visits' = visits
                    \/ /\ Matching(visits, js[p].page) = {}
                       /\ Len(visits') = Len(visits) + 1
                       /\ SubSeq(visits', 1, Len(visits)) = visits
                       /\ visits'[Len(visits')].page_url = js[p].page
                       /\ visits'[Len(visits')].visit_count = 0
                       /\ js'[p].status = 200 /\ js'[p].body.visits = 0]_vars

C6_Witness ==
    \E p, q \in Gets :
        /\ Done(p) /\ js[p].status = 200 /\ js[p].writes = 1 /\ js[p].body.visits = 0
        /\ Done(q) /\ js[q].status = 200 /\ js[q].writes = 0 /\ js[q].body.visits >= 1

FixedMessages ==
    { "Failed to fetch visit count", "Failed to increment visit count",
      "Failed to fetch visits data", "Failed to log click",
      "Failed to fetch leaderboard", "Failed to fetch analytics",
      "Internal server error" }

\* C7: in every handler of the three services, a request that a store
\* failure ended has responded 500 with a message the handler fixes, which
\* is not the message of the store's error.
C7_StoreFailureGivesFixedMessage ==
    /\ \A p \in Procs :
          js[p].status = 500 => js[p].body.error \in FixedMessages
    /\ \A p \in CjsProcs :
          cjs[p].storeError # NoError
              => /\ cjs[p].status = 500
                 /\ cjs[p].body.error \in FixedMessages
                 /\ cjs[p].body.error # cjs[p].storeError.message
    /\ \A p \in ClickProcs :
          clk[p].status = 500 => clk[p].error \in FixedMessages

(***************************************************************************)
(* Properties of the click tracker (ClickSpec).                            *)
(***************************************************************************)
Clicks == { p \in ClickProcs : clk[p].kind = "click" }
Boards == { p \in ClickProcs : clk[p].kind = "leaderboard" }

TrimmedLen(v) == Len(Trim(v.str))

RecordedTitlesBounded ==
    \A i \in DOMAIN click_tracking :
        Len(click_tracking[i].card_title) \in 1..MaxTitleLen

\* C8 as stated: a click is recorded only for a string subject of 1 to 255
\* characters after trimming; every other body is answered 400 without a
\* store call; a recorded subject is the trimmed submitted subject.
C8_RejectsLongSubjects ==
    /\ \A p \in Clicks :
          LET v == clk[p].cardTitle
              valid == v.type = "string" /\ TrimmedLen(v) \in 1..MaxTitleLen
          IN  /\ ~valid => (clk[p].status = 400 /\ ~clk[p].asked
                            /\ clk[p].after = clk[p].before)
              /\ clk[p].status = 200 => clk[p].data.card_title = Trim(v.str)
    /\ RecordedTitlesBounded

\* C8 as amended: a click is recorded only for a string subject that is
\* non-empty after trimming; every other body is answered 400 without a store
\* call; a recorded subject is the first 255 characters of the trimmed
\* submitted subject, so its length is between 1 and 255.
C8_RecordsTruncatedTrimmedSubject ==
    /\ \A p \in Clicks :
          LET v == clk[p].cardTitle
              valid == v.type = "string" /\ TrimmedLen(v) >= 1
          IN  /\ ~valid => (clk[p].pc = "done" /\ clk[p].status = 400 /\ ~clk[p].asked
                            /\ clk[p].after = clk[p].before)
              /\ valid => clk[p].status # 400
              /\ clk[p].status = 200
                    => /\ valid
                       /\ clk[p].data.card_title
                             = SubSeq(Trim(v.str), 1, Min(TrimmedLen(v), MaxTitleLen))
                       /\ \E i \in DOMAIN click_tracking :
                             click_tracking[i] = clk[p].data
    /\ RecordedTitlesBounded
    /\ \A i \in DOMAIN click_tracking :
          \E p \in Clicks :
              /\ clk[p].status = 200 /\ clk[p].data = click_tracking[i]
              /\ \E n \in 1..MaxTitleLen :
                    click_tracking[i].card_title = SubSeq(Trim(clk[p].cardTitle.str), 1, n)

C8_Witness ==
    \E p, q \in Clicks :
        /\ clk[p].status = 200 /\ TrimmedLen(clk[p].cardTitle) > MaxTitleLen
        /\ Len(clk[p].data.card_title) = MaxTitleLen
        /\ Len(click_tracking) = 1
        /\ clk[q].status = 400 /\ clk[q].cardTitle.type = "string"

\* the minimum a request asks for: the number minClicks denotes, the
\* default when it denotes none
RequestedMinClicks(q) ==
    IF ParseInt(q).nan THEN DefaultMinClicks ELSE ParseInt(q).val

Descending(board) ==
    \A i \in 1..(Len(board) - 1) : board[i].click_count >= board[i + 1].click_count

\* C9: for every limit and minClicks, the leaderboard handler asks the store
\* for between 1 and 100 entries with a count of at least the requested
\* minimum; a successful response holds at most 100 entries, each with a count
\* of at least the requested minimum, in descending order of count.
C9_LeaderboardAsksBoundedLimit ==
    \A p \in Boards :
        /\ clk[p].limit \in 1..MaxLimit
        /\ clk[p].minClicks >= RequestedMinClicks(clk[p].qMinClicks)
        /\ clk[p].status = 200
              => /\ Len(clk[p].leaderboard) <= MaxLimit
                 /\ Descending(clk[p].leaderboard)
                 /\ \A i \in DOMAIN clk[p].leaderboard :
                       clk[p].leaderboard[i].click_count
                           >= RequestedMinClicks(clk[p].qMinClicks)

====
